---- MODULE Spec2Model ----
(***************************************************************************)
(* Resumable, checkpointed pagination of the NSF awards API, as written in *)
(* original_data/get_data.py (full backfill) and                           *)
(* original_data/get_more_data.py (incremental update).  Both scripts      *)
(* share the same checkpoint file and the same output file.                *)
(*                                                                         *)
(* One process runs at a time.  Every step that touches a file, issues a   *)
(* request or sleeps is one action, because the process can be terminated  *)
(* between any two of them.                                                *)
(***************************************************************************)
EXTENDS Integers, Sequences, FiniteSets, TLC

\* ---------------------------------------------------------------- bounds
\* Page size used for checking (the source requests 25 records per page).
PageSize == 2
\* Number of years of the backfill range (the source covers 2019..2024).
YearSpan == 1
\* Largest number of records the remote source holds for one year.
MaxRecords == 3
\* Number of process invocations explored.
MaxRuns == 2

\* ------------------------------------------------------------- constants
RPP == PageSize
MAX_RETRIES == 3
YEAR_START == 2019
\* YEAR_END of get_data.py
YEAR_END_BACKFILL == YEAR_START + YearSpan - 1
\* get_more_data.py: the calendar year of the run, one past the backfill range
CURRENT_YEAR == YEAR_END_BACKFILL + 1

Modes == {"backfill", "incremental"}

\* YEAR_END as each script defines it.
YEAR_END(m) == IF m = "backfill" THEN YEAR_END_BACKFILL ELSE CURRENT_YEAR

Max(a, b) == IF a >= b THEN a ELSE b

\* ------------------------------------------------------------ identifiers
\* An identifier is a string of characters.  The remote source gives every
\* record of a data set an identifier of one format: a letter followed by
\* digits ("A.."), digits without a leading zero ("1.."), zero-padded digits
\* ("0.."), or no identifier field at all ("none").
DigitChars == <<"0", "1", "2", "3", "4", "5", "6", "7", "8", "9">>
Digits == {DigitChars[i] : i \in 1..10}
Digit(n) == DigitChars[(n % 10) + 1]
IdLeads == {"A", "1", "0", "none"}
NoId == <<>>

IdOf(lead, yy, k) ==
    IF lead = "none" THEN NoId
    ELSE <<lead, Digit(yy - YEAR_START), Digit(k)>>

\* One record of the response ("award").
Award(lead, yy, k) == [y |-> yy, k |-> k, id |-> IdOf(lead, yy, k)]

\* ---------------------------------------------------------------- files
\* checkpoint.json: absent, not parseable, a JSON object without "year",
\* or a JSON object with the four fields of the progress state.
NoCheckpoint ==
    [kind |-> "absent", year |-> 0, offset |-> 0,
     written_header |-> FALSE, total_saved |-> 0]
CorruptCheckpoint == [NoCheckpoint EXCEPT !.kind = "corrupt"]
ToJson(st) ==
    [kind |-> "json", year |-> st.year, offset |-> st.offset,
     written_header |-> st.written_header, total_saved |-> st.total_saved]
FromJson(cp) ==
    [year |-> cp.year, offset |-> cp.offset,
     written_header |-> cp.written_header, total_saved |-> cp.total_saved]

\* The CSV file: absent, or a sequence of lines.  A line is the header line
\* (the column names, with or without an "id" column) or one award.
NoOutput == [exists |-> FALSE, rows |-> <<>>]
HeaderRow(withId) == [hdr |-> TRUE, y |-> 0, k |-> 0,
                      id |-> IF withId THEN <<"i", "d">> ELSE NoId]
DataRow(a) == [hdr |-> FALSE, y |-> a.y, k |-> a.k, id |-> a.id]

VARIABLES
    remote,        \* year -> number of records the source holds (fixed)
    idLead,        \* identifier format of the source's records (fixed)
    checkpoint,    \* contents of the checkpoint file
    output,        \* contents of the output file
    pc,            \* position of the running process, "idle" when none runs
    mode,          \* which script runs
    RESET,         \* the RESET switch of the run
    state,         \* the in-memory progress state
    y,             \* main: y
    offset,        \* main: offset
    awards,        \* main: awards, the page fetch_page returned
    added,         \* main: added, the value append_chunk returned
    existing_ids,  \* main: existing_ids
    attempt,       \* fetch_page: attempt (kept until the caller uses the result)
    delays,        \* fetch_page: the sleeps of the current call, in seconds
    fetches,       \* history: the fetch_page calls of this run that returned
    run,           \* history of the current run
    hist,          \* history over all runs
    lastExit       \* how the latest finished process ended

vars == <<remote, idLead, checkpoint, output, pc, mode, RESET, state, y, offset,
          awards, added, existing_ids, attempt, delays, fetches, run, hist,
          lastExit>>

RemoteYears == YEAR_START..CURRENT_YEAR

\* ------------------------------------------------------- progress tracker
\* load_checkpoint raises on a file json.load cannot parse, and on a JSON
\* object without "year": state.get("year", YEAR_END) > YEAR_END is False
\* there, and the second operand state["year"] raises KeyError.
LoadRaises(cp) == cp.kind \in {"corrupt", "noyear"}

\* The state load_checkpoint returns when the file is absent.
DefaultState(m, out) ==
    [year |-> YEAR_END(m), offset |-> 1,
     written_header |-> IF m = "incremental" THEN out.exists ELSE FALSE,
     total_saved |-> 0]

\* OutOfRange gone wrong: only the upper end of the range is tested.
OutOfRangeAbove(m, yy) == yy > YEAR_END(m)
OutOfRange(m, yy) == yy > YEAR_END(m) \/ yy < YEAR_START

\* load_checkpoint gone wrong: a year out of range gives the default state.
load_checkpoint_fresh(m, cp, out) ==
    IF cp.kind = "absent" \/ OutOfRange(m, cp.year) THEN DefaultState(m, out)
    ELSE FromJson(cp)
load_checkpoint(m, cp, out) ==
    IF cp.kind = "absent" THEN DefaultState(m, out)
    ELSE IF OutOfRange(m, cp.year)
         THEN [FromJson(cp) EXCEPT !.year = YEAR_END(m), !.offset = 1]
         ELSE FromJson(cp)

\* save_checkpoint gone wrong: nothing is written.
save_checkpoint_skipped(st) == checkpoint
save_checkpoint(st) == ToJson(st)

\* The in-memory values of a process that does not run.
NullState == [year |-> 0, offset |-> 0, written_header |-> FALSE, total_saved |-> 0]

\* ----------------------------------------------------------- page fetcher
Records(yy) == IF yy \in DOMAIN remote THEN remote[yy] ELSE 0

\* The response to a request for rpp = RPP records from the 1-based offset
\* off of year yy.
Page(yy, off) ==
    LET last == IF Records(yy) < off + RPP - 1 THEN Records(yy) ELSE off + RPP - 1
        cnt  == Max(0, last - off + 1)
    IN  [i \in 1..cnt |-> Award(idLead, yy, off + i - 1)]

\* BackoffDelay gone wrong: the same sleep after every attempt.
BackoffConstant(a) == 2
\* time.sleep(2 * attempt)
BackoffDelay(a) == 2 * a

\* range(1, MAX_RETRIES + 1) is used up after this attempt
LastAttempt(a) == a = MAX_RETRIES

\* ------------------------------------------------------------- row merger
\* "id" in df.columns: a column exists when some record has the field.
HasIdColumn(batch) == \E i \in 1..Len(batch) : batch[i].id # NoId

\* KeepRow gone wrong: nothing is filtered.
KeepEveryRow(a, ids) == TRUE
KeepRow(a, ids) == a.id \notin ids

\* df[~df["id"].isin(existing_ids)], get_more_data.py only
FilterBatch(m, batch, ids) ==
    IF m = "incremental" /\ HasIdColumn(batch)
    THEN SelectSeq(batch, LAMBDA a : KeepRow(a, ids))
    ELSE batch

\* get_more_data.py returns before any write when nothing is left;
\* get_data.py has no such test.
SkipsWrite(m, df) == m = "incremental" /\ df = <<>>

WriteHeader(st) == ~st.written_header

\* df.to_csv(OUTPUT_FILE, mode="a", header=write_header)
to_csv(out, df, write_header) ==
    [exists |-> TRUE,
     rows |-> out.rows
              \o (IF write_header THEN <<HeaderRow(HasIdColumn(df))>> ELSE <<>>)
              \o [i \in 1..Len(df) |-> DataRow(df[i])]]

append_output(m, out, st, batch, ids) ==
    LET df == FilterBatch(m, batch, ids)
    IN  IF SkipsWrite(m, df) THEN out ELSE to_csv(out, df, WriteHeader(st))

append_state(m, st, batch, ids) ==
    LET df == FilterBatch(m, batch, ids)
    IN  IF SkipsWrite(m, df) THEN st
        ELSE [st EXCEPT !.written_header = TRUE,
                        !.total_saved = st.total_saved + Len(df)]

append_return(m, batch, ids) == Len(FilterBatch(m, batch, ids))

\* -------------------------------------------------------- existing ids
IsNumeric(s) == Len(s) > 0 /\ \A i \in 1..Len(s) : s[i] \in Digits

RECURSIVE StripZeros(_)
StripZeros(s) == IF Len(s) > 1 /\ s[1] = "0" THEN StripZeros(Tail(s)) ELSE s

\* pd.read_csv(OUTPUT_FILE, usecols=["id"]) raises when the file is empty or
\* its first line does not name an "id" column.
ReadCsvRaises(out) ==
    \/ out.rows = <<>>
    \/ ~out.rows[1].hdr
    \/ out.rows[1].id = NoId

\* The cells of the "id" column: every line after the first one.  A header
\* line written again further down is read as a line of data.
IdCells(out) == {out.rows[i].id : i \in 2..Len(out.rows)}

\* read_csv infers the column's type: a column whose cells are all digits is
\* parsed as integers (as floats when a cell is missing), any other column
\* keeps its text.  dropna() drops the missing cells, astype(str) formats.
ParsedIds(cells) ==
    LET present == cells \ {NoId}
    IN  IF \A c \in present : IsNumeric(c)
        THEN IF NoId \in cells
             THEN {StripZeros(c) \o <<".", "0">> : c \in present}
             ELSE {StripZeros(c) : c \in present}
        ELSE present

load_existing_ids(out) ==
    IF ~out.exists THEN {}
    ELSE IF ReadCsvRaises(out) THEN {}
    ELSE ParsedIds(IdCells(out))

\* ----------------------------------------------------------------- state
\* History of a run: what it has done so far (retried: a fetch_page call
\* succeeded after a failed attempt), and how the process before it ended
\* (its script, for a completed one its final total_saved and whether one of
\* its fetches ran out of retries, and prevSkipped: the (year, offset) of its
\* latest fetch_page call when that call ran out of retries and the main
\* loop had saved the checkpoint for it).
NoRun ==
    [appended |-> 0, exhausted |-> FALSE, retried |-> FALSE, pauses |-> 0,
     prevExit |-> "none", prevMode |-> "none", prevTotal |-> 0,
     prevExhausted |-> FALSE, prevSkipped |-> <<>>]

Init ==
    /\ remote \in [RemoteYears -> 0..MaxRecords]
    /\ idLead \in IdLeads
    /\ checkpoint = NoCheckpoint
    /\ output = NoOutput
    /\ pc = "idle"
    /\ mode = "backfill"
    /\ RESET = FALSE
    /\ state = NullState
    /\ y = 0
    /\ offset = 0
    /\ awards = <<>>
    /\ added = 0
    /\ existing_ids = {}
    /\ attempt = 0
    /\ delays = <<>>
    /\ fetches = <<>>
    /\ run = NoRun
    /\ hist = [runs |-> 0, midKill |-> FALSE, exhausted |-> FALSE,
               modes |-> {}, resets |-> FALSE]
    /\ lastExit = "none"

\* The process is gone: nothing of its memory is left.
MemoryLost ==
    /\ state' = NullState
    /\ y' = 0
    /\ offset' = 0
    /\ awards' = <<>>
    /\ added' = 0
    /\ existing_ids' = {}
    /\ attempt' = 0
    /\ delays' = <<>>

\* A process that ended, in the way how.
Exited(how) ==
    /\ pc' = "idle"
    /\ lastExit' = how
    /\ MemoryLost
    /\ fetches' = <<>>
    /\ RESET' = FALSE
    /\ run' = [NoRun EXCEPT
                 !.prevExit = how, !.prevMode = mode,
                 !.prevTotal = IF how = "completed" THEN state.total_saved ELSE 0,
                 !.prevExhausted = how = "completed" /\ run.exhausted,
                 !.prevSkipped =
                     IF /\ fetches # <<>>
                        /\ fetches[Len(fetches)].failed
                        /\ pc = "while_year"
                     THEN <<fetches[Len(fetches)].y, fetches[Len(fetches)].offset>>
                     ELSE <<>>]

\* python get_data.py / python get_more_data.py, with RESET as edited.
StartRun(m, r) ==
    /\ pc = "idle"
    /\ hist.runs < MaxRuns
    /\ pc' = "reset_files"
    /\ mode' = m
    /\ RESET' = r
    /\ lastExit' = "running"
    /\ hist' = [hist EXCEPT !.runs = @ + 1, !.modes = @ \cup {m}]
    /\ UNCHANGED <<remote, idLead, checkpoint, output, state, y, offset, awards,
                   added, existing_ids, attempt, delays, fetches, run>>

\* reset_checkpoint gone wrong: the checkpoint survives the reset.
reset_checkpoint_kept(r, cp) == cp
\* reset_files()
reset_checkpoint(r, cp) == IF r THEN NoCheckpoint ELSE cp
reset_output(r, out) == IF r THEN NoOutput ELSE out

ResetFiles ==
    /\ pc = "reset_files"
    /\ checkpoint' = reset_checkpoint(RESET, checkpoint)
    /\ output' = reset_output(RESET, output)
    /\ hist' = [hist EXCEPT
                  !.resets = @ \/ (RESET /\ (checkpoint # NoCheckpoint
                                              \/ output # NoOutput))]
    /\ pc' = "load_checkpoint"
    /\ UNCHANGED <<remote, idLead, mode, RESET, state, y, offset, awards, added,
                   existing_ids, attempt, delays, fetches, run, lastExit>>

\* state = load_checkpoint(); an exception it raises ends the process.
LoadCheckpoint ==
    /\ pc = "load_checkpoint"
    /\ IF LoadRaises(checkpoint)
       THEN Exited("fatal")
       ELSE /\ state' = load_checkpoint(mode, checkpoint, output)
            /\ pc' = IF mode = "incremental" THEN "load_existing_ids" ELSE "set_year"
            /\ UNCHANGED <<lastExit, y, offset, awards, added, existing_ids,
                           attempt, delays, fetches, RESET, run>>
    /\ UNCHANGED <<remote, idLead, checkpoint, output, mode, hist>>

\* existing_ids = load_existing_ids(), get_more_data.py only
LoadExistingIds ==
    /\ pc = "load_existing_ids"
    /\ existing_ids' = load_existing_ids(output)
    /\ pc' = "set_year"
    /\ UNCHANGED <<remote, idLead, checkpoint, output, mode, RESET, state, y,
                   offset, awards, added, attempt, delays, fetches, run, hist,
                   lastExit>>

\* y = state["year"]
SetYear ==
    /\ pc = "set_year"
    /\ y' = state.year
    /\ pc' = "while_year"
    /\ UNCHANGED <<remote, idLead, checkpoint, output, mode, RESET, state,
                   offset, awards, added, existing_ids, attempt, delays, fetches,
                   run, hist, lastExit>>

\* while y >= YEAR_START: offset = max(state["offset"], 1); the loop's end is
\* the end of the run.
WhileYear ==
    /\ pc = "while_year"
    /\ IF y >= YEAR_START
       THEN /\ offset' = Max(state.offset, 1)
            /\ attempt' = 1
            /\ delays' = <<>>
            /\ pc' = "fetch"
            /\ UNCHANGED <<lastExit, RESET, state, y, awards, added,
                           existing_ids, fetches, run>>
       ELSE Exited("completed")
    /\ UNCHANGED <<remote, idLead, checkpoint, output, mode, hist>>

\* fetch_page: one attempt of the retry loop that succeeds; the function
\* returns data["response"]["award"].
FetchSucceeds ==
    /\ pc = "fetch"
    /\ awards' = Page(y, offset)
    /\ fetches' = Append(fetches, [y |-> y, offset |-> offset,
                                   n |-> Len(Page(y, offset)), failed |-> FALSE])
    /\ run' = [run EXCEPT !.retried = @ \/ attempt > 1]
    /\ pc' = "got_awards"
    /\ UNCHANGED <<remote, idLead, checkpoint, output, mode, RESET, state, y,
                   offset, added, existing_ids, attempt, delays, hist,
                   lastExit>>

\* fetch_page: one attempt that raises; the handler sleeps, and after the
\* last attempt the function returns [].
FetchFails ==
    /\ pc = "fetch"
    /\ delays' = Append(delays, BackoffDelay(attempt))
    /\ IF LastAttempt(attempt)
       THEN /\ awards' = <<>>
            /\ fetches' = Append(fetches, [y |-> y, offset |-> offset,
                                           n |-> 0, failed |-> TRUE])
            /\ run' = [run EXCEPT !.exhausted = TRUE]
            /\ hist' = [hist EXCEPT !.exhausted = TRUE]
            /\ pc' = "got_awards"
            /\ UNCHANGED attempt
       ELSE /\ attempt' = attempt + 1
            /\ UNCHANGED <<awards, fetches, run, hist, pc>>
    /\ UNCHANGED <<remote, idLead, checkpoint, output, mode, RESET, state, y,
                   offset, added, existing_ids, lastExit>>

\* y -= 1; state["year"] = y; state["offset"] = 1
\* NextYear gone wrong: a year is stepped over.
NextYearTwo(yy) == yy - 2
NextYear(yy) == yy - 1
\* year_finished gone wrong: the new year is not put into the state.
year_finished_year_kept(st, yy) == [st EXCEPT !.offset = 1]
\* year_finished gone wrong: the offset of the year left is carried over.
year_finished_offset_kept(st, yy) == [st EXCEPT !.year = NextYear(yy)]
year_finished(st, yy) == [st EXCEPT !.year = NextYear(yy), !.offset = 1]

\* if not awards: the year is finished, the checkpoint saved
EmptyPage ==
    /\ pc = "got_awards"
    /\ awards = <<>>
    /\ y' = NextYear(y)
    /\ state' = year_finished(state, y)
    /\ checkpoint' = save_checkpoint(year_finished(state, y))
    /\ pc' = "while_year"
    /\ attempt' = 0
    /\ delays' = <<>>
    /\ UNCHANGED <<remote, idLead, output, mode, RESET, offset, awards, added,
                   existing_ids, fetches, run, hist, lastExit>>

\* df = pd.DataFrame(awards); append_chunk(df, state[, existing_ids])
AppendChunk ==
    /\ pc = "got_awards"
    /\ awards # <<>>
    /\ output' = append_output(mode, output, state, awards, existing_ids)
    /\ state' = append_state(mode, state, awards, existing_ids)
    /\ added' = append_return(mode, awards, existing_ids)
    /\ run' = [run EXCEPT !.appended = @ + Len(output'.rows) - Len(output.rows)]
    /\ pc' = "save_progress"
    /\ attempt' = 0
    /\ delays' = <<>>
    /\ UNCHANGED <<remote, idLead, checkpoint, mode, RESET, y, offset, awards,
                   existing_ids, fetches, hist, lastExit>>

\* save_checkpoint(state) right after append_chunk
SaveProgress ==
    /\ pc = "save_progress"
    /\ checkpoint' = save_checkpoint(state)
    /\ pc' = "check_count"
    /\ UNCHANGED <<remote, idLead, output, mode, RESET, state, y, offset, awards,
                   added, existing_ids, attempt, delays, fetches, run, hist,
                   lastExit>>

\* page_count gone wrong: the rows left after the filter are counted.
page_count_added(df, n_added) == n_added
\* count = len(df): df is the frame of the fetched page; append_chunk filters
\* a frame of its own
page_count(df, n_added) == Len(df)

\* ShortPage gone wrong: a full page taken for the last one.
ShortPageInclusive(count) == count <= RPP
\* count = len(df); if count < RPP
ShortPage(count) == count < RPP
\* NextOffset gone wrong: one record is stepped over.
NextOffsetSkip(off) == off + RPP + 1
\* offset += RPP
NextOffset(off) == off + RPP

\* the year ends on a short page
EndOfResults ==
    /\ pc = "check_count"
    /\ ShortPage(page_count(awards, added))
    /\ y' = NextYear(y)
    /\ state' = year_finished(state, y)
    /\ checkpoint' = save_checkpoint(year_finished(state, y))
    /\ pc' = "while_year"
    /\ UNCHANGED <<remote, idLead, output, mode, RESET, offset, awards, added,
                   existing_ids, attempt, delays, fetches, run, hist, lastExit>>

\* offset += RPP; state["offset"] = offset; save_checkpoint(state)
AdvanceOffset ==
    /\ pc = "check_count"
    /\ ~ShortPage(page_count(awards, added))
    /\ offset' = NextOffset(offset)
    /\ state' = [state EXCEPT !.offset = NextOffset(offset)]
    /\ checkpoint' = save_checkpoint([state EXCEPT !.offset = NextOffset(offset)])
    /\ pc' = "pause"
    /\ UNCHANGED <<remote, idLead, output, mode, RESET, y, awards, added,
                   existing_ids, attempt, delays, fetches, run, hist, lastExit>>

\* Pause gone wrong: the next fetch_page call follows without the sleep.
PauseSkipped ==
    /\ pc = "pause"
    /\ attempt' = 1
    /\ delays' = <<>>
    /\ pc' = "fetch"
    /\ UNCHANGED <<remote, idLead, checkpoint, output, mode, RESET, state, y,
                   offset, awards, added, existing_ids, fetches, run, hist,
                   lastExit>>
\* time.sleep(PAUSE), then the next fetch_page call of the inner loop
Pause ==
    /\ pc = "pause"
    /\ run' = [run EXCEPT !.pauses = @ + 1]
    /\ attempt' = 1
    /\ delays' = <<>>
    /\ pc' = "fetch"
    /\ UNCHANGED <<remote, idLead, checkpoint, output, mode, RESET, state, y,
                   offset, awards, added, existing_ids, fetches, hist, lastExit>>

\* The positions right after a save_checkpoint call and before the next
\* request.
AfterSave ==
    \/ pc \in {"check_count", "pause"}
    \/ pc = "while_year" /\ fetches # <<>>

\* The process is terminated (SIGINT, kill, power loss): the files stay as
\* they are.
Terminate ==
    /\ pc # "idle"
    /\ Exited("killed")
    /\ hist' = [hist EXCEPT !.midKill = @ \/ ~AfterSave]
    /\ UNCHANGED <<remote, idLead, checkpoint, output, mode>>

Next ==
    \/ \E m \in Modes, r \in BOOLEAN : StartRun(m, r)
    \/ ResetFiles
    \/ LoadCheckpoint
    \/ LoadExistingIds
    \/ SetYear
    \/ WhileYear
    \/ FetchSucceeds
    \/ FetchFails
    \/ EmptyPage
    \/ AppendChunk
    \/ SaveProgress
    \/ EndOfResults
    \/ AdvanceOffset
    \/ Pause
    \/ Terminate

Spec == Init /\ [][Next]_vars

\* One process on absent files, from its start to its end.
NextOneRun ==
    \/ \E m \in Modes, r \in BOOLEAN : hist.runs = 0 /\ StartRun(m, r)
    \/ ResetFiles
    \/ LoadCheckpoint
    \/ LoadExistingIds
    \/ SetYear
    \/ WhileYear
    \/ FetchSucceeds
    \/ FetchFails
    \/ EmptyPage
    \/ AppendChunk
    \/ SaveProgress
    \/ EndOfResults
    \/ AdvanceOffset
    \/ Pause
    \/ Terminate

SpecOneRun == Init /\ [][NextOneRun]_vars

\* ------------------------------------------------------------ properties
IsData(i) == ~output.rows[i].hdr
Rows == 1..Len(output.rows)
HeaderCount == Cardinality({i \in Rows : output.rows[i].hdr})
DataCount == Cardinality({i \in Rows : IsData(i)})

\* No record of the source is stored twice.
NoRecordTwice ==
    \A i, j \in Rows :
        (i < j /\ IsData(i) /\ IsData(j))
            => <<output.rows[i].y, output.rows[i].k>>
                 # <<output.rows[j].y, output.rows[j].k>>

\* Every record of the years yy >= lowest of a script's range is stored.
Stored(yy, k) == \E i \in Rows : IsData(i) /\ output.rows[i].y = yy /\ output.rows[i].k = k
AllStoredFrom(m, lowest) ==
    \A yy \in lowest..YEAR_END(m) : \A k \in 1..Records(yy) : Stored(yy, k)

\* The run is over: the outer loop is about to end.
RunEnds == pc = "while_year" /\ y < YEAR_START

\* Every process so far ran the same script, no reset has deleted a file,
\* every termination came right after a checkpoint save,
\* and no fetch ran out of retries.
OnlyCrashesAfterSave ==
    /\ Cardinality(hist.modes) <= 1
    /\ ~hist.midKill
    /\ ~hist.exhausted
    /\ ~hist.resets

\* C1: a process killed right after a checkpoint save and restarted without
\* reset fetches first at the persisted (year, offset), no page's rows are
\* appended a second time over the two runs, and no page is skipped.
\* (The save that ends the last year, after which no fetch follows, is left
\* out of the first part.)
C1_CrashResumeExact ==
    OnlyCrashesAfterSave =>
        /\ (run.prevExit = "killed" /\ pc = "fetch" /\ fetches = <<>>
              /\ ~OutOfRange(mode, checkpoint.year))
               => (y = checkpoint.year /\ offset = checkpoint.offset)
        /\ NoRecordTwice
        /\ RunEnds => AllStoredFrom(mode, YEAR_START)

\* C2: in incremental-update mode, with every record carrying its own
\* identifier, the output never holds two rows with the same identifier,
\* whatever the runs and terminations.
C2_NoDuplicateIdentifiers ==
    (idLead # "none" /\ hist.modes \subseteq {"incremental"})
        => \A i, j \in Rows :
               (i < j /\ IsData(i) /\ IsData(j))
                   => output.rows[i].id # output.rows[j].id

\* C3: an incremental run that completes right after a completed
\* incremental run appends nothing and ends with the same total_saved.
\* (Stated for records that carry identifiers and for runs in which no fetch
\* ran out of retries: the cases most favourable to the claim.)
C3_SecondRunIdempotent ==
    (/\ RunEnds /\ mode = "incremental"
     /\ run.prevExit = "completed" /\ run.prevMode = "incremental"
     /\ ~RESET /\ idLead # "none"
     /\ ~run.exhausted /\ ~run.prevExhausted)
        => (run.appended = 0 /\ state.total_saved = run.prevTotal)

\* C9: as long as no reset has deleted a file the output holds at most one header row, and whenever
\* it holds a data row it holds exactly one header row, as its first line.
C9_SingleHeader ==
    ~hist.resets =>
        /\ HeaderCount <= 1
        /\ DataCount > 0 => (HeaderCount = 1 /\ output.rows[1].hdr)

\* The fetch_page calls of this run for year yy, in order.
YearFetches(yy) == SelectSeq(fetches, LAMBDA f : f.y = yy)
NoFailure(fs) == \A i \in 1..Len(fs) : ~fs[i].failed

\* C5: without fetch failures a year entered at offset 1 is fetched at the
\* offsets 1, 1+RPP, 1+2*RPP, ... and is left after floor(N/RPP)+1 fetches:
\* after the empty page when N is a multiple of RPP, right after the short
\* page otherwise.
C5_EndOfYearDetection ==
    \A yy \in RemoteYears :
        LET fs == YearFetches(yy)
            N  == Records(yy)
        IN  (Len(fs) > 0 /\ fs[1].offset = 1 /\ NoFailure(fs)) =>
              /\ \A i \in 1..Len(fs) : fs[i].offset = 1 + (i - 1) * RPP
              /\ Len(fs) <= (N \div RPP) + 1
              /\ y < yy =>
                    /\ Len(fs) = (N \div RPP) + 1
                    /\ \A i \in 1..(Len(fs) - 1) : fs[i].n = RPP
                    /\ fs[Len(fs)].n = N % RPP

\* C5 witness: one run has left a year holding exactly RPP records after the
\* empty page and a year holding RPP+1 records right after the short page.
C5_Witness ==
    \E y1, y2 \in RemoteYears :
        /\ y < y1 /\ y < y2
        /\ Records(y1) = RPP /\ Records(y2) = RPP + 1
        /\ NoFailure(YearFetches(y1)) /\ NoFailure(YearFetches(y2))
        /\ Len(YearFetches(y1)) = 2 /\ YearFetches(y1)[2].n = 0
        /\ Len(YearFetches(y2)) = 2 /\ YearFetches(y2)[2].n = 1

\* C6: fetch_page never fails its caller: it makes at most MAX_RETRIES
\* attempts, returns the page of the first attempt that succeeds, and after
\* MAX_RETRIES failed attempts, the k-th followed by a sleep of 2*k seconds,
\* returns the empty sequence.
C6_FetchRetries ==
    /\ lastExit # "fatal"
    /\ pc = "fetch" => (attempt \in 1..MAX_RETRIES /\ Len(delays) = attempt - 1)
    /\ pc \in {"fetch", "got_awards"} =>
          \A k \in 1..Len(delays) :
              delays[k] = 2 * k /\ (k > 1 => delays[k] > delays[k - 1])
    /\ pc = "got_awards" =>
          IF fetches[Len(fetches)].failed
          THEN attempt = MAX_RETRIES /\ Len(delays) = MAX_RETRIES /\ awards = <<>>
          ELSE /\ attempt \in 1..MAX_RETRIES
               /\ Len(delays) = attempt - 1
               /\ awards = Page(y, offset)

\* C6 witness: a call has returned after MAX_RETRIES failed attempts.
C6_Witness ==
    /\ pc = "got_awards"
    /\ fetches[Len(fetches)].failed
    /\ Len(delays) = MAX_RETRIES
    /\ awards = <<>>
    /\ Records(y) > 0

FreshState ==
    [year |-> YEAR_END(mode), offset |-> 1, written_header |-> FALSE,
     total_saved |-> 0]

\* C10: with reset requested both files are absent when load_checkpoint is
\* called, the loaded state is (YEAR_END, 1, false, 0) and the first fetch is
\* at (YEAR_END, 1).
C10_ResetStartsFresh ==
    RESET =>
        /\ pc = "load_checkpoint" => (checkpoint = NoCheckpoint /\ output = NoOutput)
        /\ pc \in {"load_existing_ids", "set_year"} => state = FreshState
        /\ (pc = "fetch" /\ fetches = <<>>) => (y = YEAR_END(mode) /\ offset = 1)
        /\ Len(fetches) > 0 =>
              (fetches[1].y = YEAR_END(mode) /\ fetches[1].offset = 1)

\* C10 witness: a run whose reset deleted files has issued its first fetch.
C10_Witness ==
    /\ RESET
    /\ hist.resets
    /\ pc = "got_awards" /\ Len(fetches) = 1
    /\ fetches[1].y = YEAR_END(mode) /\ fetches[1].offset = 1
    /\ checkpoint = NoCheckpoint

\* ------------------------------------------- the start of a run on any files
\* The checkpoint files a process may find: absent, unparseable, a JSON
\* object without "year", and JSON objects with years inside, below and
\* above the range.
IdleMemory ==
    /\ state = NullState /\ y = 0 /\ offset = 0 /\ awards = <<>> /\ added = 0
    /\ existing_ids = {} /\ attempt = 0 /\ delays = <<>> /\ fetches = <<>>

CheckpointFiles ==
    {NoCheckpoint, CorruptCheckpoint, [NoCheckpoint EXCEPT !.kind = "noyear"]}
    \cup {ToJson([year |-> yy, offset |-> off, written_header |-> wh,
                  total_saved |-> tot]) :
             yy \in (YEAR_START - 2)..(CURRENT_YEAR + 2),
             off \in {-1, 0, 1, 1 + RPP}, wh \in BOOLEAN, tot \in {0, 3}}

SomeOutput == [exists |-> TRUE,
               rows |-> <<HeaderRow(TRUE), DataRow(Award("A", YEAR_START, 1))>>]

\* A process has just been started, with or without RESET, on any of these
\* files.
InitStart ==
    /\ remote = [yy \in RemoteYears |-> MaxRecords]
    /\ idLead = "A"
    /\ checkpoint \in CheckpointFiles
    /\ output \in {NoOutput, SomeOutput}
    /\ pc = "reset_files"
    /\ mode \in Modes
    /\ RESET \in BOOLEAN
    /\ IdleMemory
    /\ run = NoRun
    /\ hist = [runs |-> 1, midKill |-> FALSE, exhausted |-> FALSE,
               modes |-> {mode}, resets |-> FALSE]
    /\ lastExit = "running"

\* main() from reset_files() to the return of the first fetch_page call.
NextStart ==
    \/ ResetFiles
    \/ LoadCheckpoint
    \/ LoadExistingIds
    \/ SetYear
    \/ WhileYear
    \/ FetchSucceeds
    \/ FetchFails

SpecStart == InitStart /\ [][NextStart]_vars

Loaded == pc \in {"load_existing_ids", "set_year"}

\* C7: the state load_checkpoint returns has its year in
\* [YEAR_START, YEAR_END]; a persisted year outside the range gives
\* year = YEAR_END and offset = 1 with the other two fields as persisted, a
\* persisted year inside the range gives the persisted state unchanged.
C7_LoadedYearInRange ==
    Loaded =>
        /\ state.year \in YEAR_START..YEAR_END(mode)
        /\ (checkpoint.kind = "json" /\ (checkpoint.year < YEAR_START
                                          \/ checkpoint.year > YEAR_END(mode)))
              => state = [year |-> YEAR_END(mode), offset |-> 1,
                          written_header |-> checkpoint.written_header,
                          total_saved |-> checkpoint.total_saved]
        /\ (checkpoint.kind = "json" /\ checkpoint.year \in YEAR_START..YEAR_END(mode))
              => ToJson(state) = checkpoint

\* C7 witness: a checkpoint with year YEAR_START-1, an offset other than 1
\* and rows already counted has been loaded.
C7_Witness ==
    /\ Loaded
    /\ checkpoint.kind = "json"
    /\ checkpoint.year = YEAR_START - 1
    /\ checkpoint.offset = 1 + RPP
    /\ checkpoint.total_saved > 0
    /\ state.year = YEAR_END(mode)
    /\ state.offset = 1
    /\ state.total_saved = checkpoint.total_saved

\* C8: a missing or corrupt checkpoint (absent, unparseable, or without the
\* year field) is never fatal: load_checkpoint returns the fresh default
\* state and the run proceeds.
C8_LoadFailsOpen ==
    /\ lastExit # "fatal"
    /\ (Loaded /\ checkpoint.kind # "json") =>
          (state.year = YEAR_END(mode) /\ state.offset = 1 /\ state.total_saved = 0)

\* ------------------------------------------------ append_chunk on any batch
\* append_chunk is applied to a fetched page, with any set of identifiers
\* of that year (as fetched, and as read back from the file) as existing_ids.
YearIds(yy) ==
    LET ids == {IdOf(idLead, yy, k) : k \in 1..(MaxRecords + 1)} \ {NoId}
    IN  ids \cup {StripZeros(i) : i \in ids}

InitMerge ==
    /\ remote = [yy \in RemoteYears |-> MaxRecords]
    /\ idLead \in IdLeads
    /\ checkpoint = NoCheckpoint
    /\ output \in {NoOutput, SomeOutput}
    /\ pc = "got_awards"
    /\ mode \in Modes
    /\ RESET = FALSE
    /\ y = YEAR_START
    /\ offset \in {1, 1 + RPP}
    /\ awards = Page(y, offset)
    /\ awards # <<>>
    /\ state \in [year : {y}, offset : {offset}, written_header : BOOLEAN,
                   total_saved : {0, 2}]
    /\ added = 0
    /\ existing_ids \in SUBSET YearIds(y)
    /\ attempt = 1
    /\ delays = <<>>
    /\ fetches = <<[y |-> y, offset |-> offset, n |-> Len(awards), failed |-> FALSE]>>
    /\ run = NoRun
    /\ hist = [runs |-> 1, midKill |-> FALSE, exhausted |-> FALSE,
               modes |-> {mode}, resets |-> FALSE]
    /\ lastExit = "running"

SpecMerge == InitMerge /\ [][AppendChunk]_vars

\* The rows of a batch whose identifier is not among ids, in batch order.
RECURSIVE NotAmong(_, _)
NotAmong(batch, ids) ==
    IF batch = <<>> THEN <<>>
    ELSE IF Head(batch).id \in ids
         THEN NotAmong(Tail(batch), ids)
         ELSE <<DataRow(Head(batch))>> \o NotAmong(Tail(batch), ids)

DataRowsOf(rows) == SelectSeq(rows, LAMBDA r : ~r.hdr)

\* C4: the incremental merge of a batch whose records carry identifiers
\* appends exactly the batch rows whose identifier is not in existing_ids, in
\* batch order; total_saved grows by their number, which is the value
\* returned; when no row is left, the output, header_written and total_saved
\* stay as they are and 0 is returned.
C4_MergeAppendsOnlyNew ==
    [][(/\ pc = "got_awards" /\ pc' = "save_progress"
        /\ mode = "incremental"
        /\ \A i \in 1..Len(awards) : awards[i].id # NoId)
       => LET new == NotAmong(awards, existing_ids)
          IN  /\ DataRowsOf(output'.rows) = DataRowsOf(output.rows) \o new
              /\ Len(output'.rows) - Len(output.rows)
                    \in {Len(new), Len(new) + 1}
              /\ state'.total_saved = state.total_saved + Len(new)
              /\ added' = Len(new)
              /\ new = <<>> => (output' = output /\ state' = state)]_vars

\* C4 witness: of a batch of two records the first was among existing_ids
\* and the second was appended.
C4_Witness ==
    /\ pc = "save_progress"
    /\ mode = "incremental"
    /\ Len(awards) = 2
    /\ awards[1].id \in existing_ids
    /\ awards[2].id \notin existing_ids /\ awards[2].id # NoId
    /\ added = 1
    /\ output.rows[Len(output.rows)] = DataRow(awards[2])

\* ------------------------------------------------ one run on the files found
\* The checkpoint files a run may be resumed from: absent, or the progress
\* state with a year inside, just below or above the range, an offset that
\* is page-aligned, zero or negative, and nothing or some rows counted.
ResumeCheckpoints(out) ==
    {NoCheckpoint}
    \cup {ToJson([year |-> yy, offset |-> off, written_header |-> out.exists,
                  total_saved |-> tot]) :
             yy \in (YEAR_START - 1)..(CURRENT_YEAR + 1),
             off \in {-1, 0, 1, 1 + RPP}, tot \in {0, 3}}

\* A process has just been started without RESET on files an earlier process
\* left, the remote source holding any number of records per year.
InitResume ==
    /\ remote \in [RemoteYears -> 0..MaxRecords]
    /\ idLead = "A"
    /\ output \in {NoOutput, SomeOutput}
    /\ checkpoint \in ResumeCheckpoints(output)
    /\ pc = "reset_files"
    /\ mode \in Modes
    /\ RESET = FALSE
    /\ IdleMemory
    /\ run = NoRun
    /\ hist = [runs |-> 1, midKill |-> FALSE, exhausted |-> FALSE,
               modes |-> {mode}, resets |-> FALSE]
    /\ lastExit = "running"

\* main(), every step of it, the process left alone.
NextRun ==
    \/ ResetFiles
    \/ LoadCheckpoint
    \/ LoadExistingIds
    \/ SetYear
    \/ WhileYear
    \/ FetchSucceeds
    \/ FetchFails
    \/ EmptyPage
    \/ AppendChunk
    \/ SaveProgress
    \/ EndOfResults
    \/ AdvanceOffset
    \/ Pause

SpecResume == InitResume /\ [][NextRun]_vars

\* A process that is not terminated keeps taking its steps.
SpecResumeLive == SpecResume /\ WF_vars(NextRun)

Running == pc # "idle"

\* Record k of year yy came back from a fetch_page call that succeeded.
FetchedOk(yy, k) ==
    \E i \in 1..Len(fetches) :
        /\ fetches[i].y = yy /\ ~fetches[i].failed
        /\ fetches[i].offset <= k /\ k < fetches[i].offset + fetches[i].n

\* Record k of year yy is in the output, or (get_more_data.py) was left out
\* because its identifier is among existing_ids.
Merged(yy, k) ==
    \/ Stored(yy, k)
    \/ mode = "incremental" /\ IdOf(idLead, yy, k) \in existing_ids

\* The run has fetched in year yy and has moved on to an earlier year.
YearLeft(yy) == Running /\ Len(YearFetches(yy)) > 0 /\ y < yy
EntryOffset(yy) == YearFetches(yy)[1].offset

AllMergedFromEntry(yy) ==
    \A k \in EntryOffset(yy)..Records(yy) : FetchedOk(yy, k) /\ Merged(yy, k)

\* C11 as stated: whenever the loop has moved from a year to the previous
\* one, every record of that year at or after the offset at which the run
\* entered it has been fetched successfully and merged into the output,
\* whatever attempts failed.
C11_YearFullyExhausted ==
    \A yy \in RemoteYears : YearLeft(yy) => AllMergedFromEntry(yy)

\* C11 amended: the same, for a year none of whose fetch_page calls ran out
\* of retries (attempts that fail and are retried with success lose
\* nothing); a call that ran out of retries is the last call of its year.
C11_YearExhaustedUnlessSkipped ==
    \A yy \in RemoteYears :
        LET fs == YearFetches(yy)
        IN  /\ (YearLeft(yy) /\ NoFailure(fs)) => AllMergedFromEntry(yy)
            /\ \A i \in 1..Len(fs) : fs[i].failed => i = Len(fs)

\* C11 witness: a year of more than one page, entered at offset 1, has been
\* left with all its records merged, one of its calls having succeeded only
\* after a failed attempt.
C11_Witness ==
    \E yy \in RemoteYears :
        /\ YearLeft(yy) /\ pc = "while_year"
        /\ Len(YearFetches(yy)) = Len(fetches)
        /\ NoFailure(fetches)
        /\ run.retried
        /\ EntryOffset(yy) = 1
        /\ Records(yy) > RPP
        /\ AllMergedFromEntry(yy)

\* The position load_checkpoint and max(state["offset"], 1) give for the
\* checkpoint file as it is.
PersistedEntry ==
    LET st == load_checkpoint(mode, checkpoint, output)
    IN  <<st.year, Max(st.offset, 1)>>

\* C12: the fetches of one run, in order: the first is at the persisted
\* position; the next one is in the same year, RPP further, or in the
\* year before, at offset 1; the year never increases, no (year, offset) is
\* fetched twice and a year once left is not fetched again.
C12_FetchOrder ==
    /\ (pc = "fetch" /\ fetches = <<>>) => <<y, offset>> = PersistedEntry
    /\ \A i \in 2..Len(fetches) :
          IF fetches[i].y = fetches[i - 1].y
          THEN fetches[i].offset = fetches[i - 1].offset + RPP
          ELSE fetches[i].y = fetches[i - 1].y - 1 /\ fetches[i].offset = 1
    /\ \A i, j \in 1..Len(fetches) :
          i < j => /\ fetches[j].y <= fetches[i].y
                   /\ <<fetches[i].y, fetches[i].offset>>
                         # <<fetches[j].y, fetches[j].offset>>
                   /\ \A k \in i..j :
                         fetches[i].y = fetches[j].y => fetches[k].y = fetches[i].y
    /\ pc \in {"fetch", "got_awards", "save_progress", "check_count", "pause"}
          => (Len(fetches) > 0 => y <= fetches[Len(fetches)].y)

\* C12 witness: a run resumed in the middle of a year, at the persisted
\* offset 1+RPP, has gone on to the year before and fetched there at the
\* offsets 1 and 1+RPP.
C12_Witness ==
    /\ Len(fetches) = 3
    /\ fetches[1].offset = 1 + RPP
    /\ fetches[2].y = fetches[1].y - 1 /\ fetches[2].offset = 1
    /\ fetches[3].y = fetches[2].y /\ fetches[3].offset = 1 + RPP

\* The inner loop: a page is being fetched, merged or counted.
InLoop == pc \in {"fetch", "got_awards", "save_progress", "check_count", "pause"}

\* total_saved as a process started now would load it.
PersistedTotal == load_checkpoint(mode, checkpoint, output).total_saved

\* The last n lines of the output are records of the page at (yy, off).
LastRowsFromPage(n, yy, off) ==
    /\ n <= Len(output.rows)
    /\ \A i \in (Len(output.rows) - n + 1)..Len(output.rows) :
          /\ IsData(i)
          /\ output.rows[i].y = yy
          /\ output.rows[i].k \in off..(off + RPP - 1)

\* C13: wherever the process can be terminated, the persisted (year, offset)
\* is the page being fetched or merged, or the position right after it; the
\* in-memory total_saved is ahead of the persisted one only between
\* append_chunk and the save that follows it, and the rows not yet counted
\* are rows of that one page.
C13_AtMostOnePageLost ==
    /\ InLoop => PersistedEntry = <<y, offset>>
    /\ (pc = "while_year" /\ fetches = <<>>) => PersistedEntry[1] = y
    /\ (pc = "while_year" /\ fetches # <<>>) =>
          (checkpoint.kind = "json" /\ checkpoint.year = y /\ checkpoint.offset = 1)
    /\ (pc \in {"set_year", "while_year"} \/ (InLoop /\ pc # "save_progress"))
          => state.total_saved = PersistedTotal
    /\ pc = "save_progress" =>
          /\ state.total_saved - PersistedTotal = added
          /\ added \in 0..RPP
          /\ LastRowsFromPage(added, y, offset)

\* C13 witness: rows of a later page of the run are in the output and not
\* yet counted in the checkpoint this run wrote.
C13_Witness ==
    /\ pc = "save_progress"
    /\ Len(fetches) >= 2
    /\ added > 0
    /\ checkpoint.kind = "json"
    /\ checkpoint.total_saved > 0
    /\ state.total_saved = checkpoint.total_saved + added

\* Done: the outer loop has ended and main has returned.
Done == pc = "idle" /\ lastExit = "completed"

\* C14: a run that is not terminated reaches Done, whatever attempts fail;
\* the loop ends exactly when the year is YEAR_START-1; no fetch is issued
\* for a year below YEAR_START or above YEAR_END.
C14_Termination ==
    /\ <>Done
    /\ [](/\ pc = "fetch" => y \in YEAR_START..YEAR_END(mode)
          /\ \A i \in 1..Len(fetches) :
                fetches[i].y \in YEAR_START..YEAR_END(mode))
    /\ [][pc = "while_year" =>
             ((lastExit' = "completed") <=> (y = YEAR_START - 1))]_vars

\* C14 witness: a run has reached Done although one of its fetch_page
\* calls ran out of retries and another succeeded only on a retry.
C14_Witness ==
    /\ Done
    /\ run.prevExhausted
    /\ checkpoint.kind = "json" /\ checkpoint.year = YEAR_START - 1
    /\ output.exists

\* ------------------------------------------------- a run and the next one
\* A process started without RESET on absent files, and the process started
\* without RESET on the files it left; each runs to its end or is terminated
\* right after a checkpoint save.  The records carry identifiers that read
\* back as written.
InitRuns == Init /\ idLead = "A"

KilledAfterSave == AfterSave /\ Terminate

NextRuns ==
    \/ \E m \in Modes : hist.runs <= 1 /\ StartRun(m, FALSE)
    \/ NextRun
    \/ KilledAfterSave

SpecRuns == InitRuns /\ [][NextRuns]_vars

\* The main loop has handled the latest fetch_page call, which ran out of
\* retries.
SkipHandled ==
    /\ pc = "while_year"
    /\ fetches # <<>>
    /\ fetches[Len(fetches)].failed

\* The same run fetches nothing more in a year one of whose fetch_page calls
\* ran out of retries, and the main loop persists (year-1, 1) for it.
SkipEndsYear ==
    /\ \A i, j \in 1..Len(fetches) :
          (i < j /\ fetches[i].failed) => fetches[j].y < fetches[i].y
    /\ SkipHandled =>
          /\ y = fetches[Len(fetches)].y - 1
          /\ state.year = y /\ state.offset = 1
          /\ checkpoint = ToJson(state)

\* This run fetches no page of the year the process before gave up, from
\* the offset of the failed call onward.
NoFetchOfSkipped ==
    \A i \in 1..Len(fetches) :
        ~(fetches[i].y = run.prevSkipped[1]
            /\ fetches[i].offset >= run.prevSkipped[2])

\* C15 as stated: an empty result after exhausted retries is handled as the
\* end of the year, (year-1, 1) is persisted, and the pages of that year
\* from the failed offset onward are fetched neither later in the same run
\* nor by a run restarted from that checkpoint.
C15_SkippedPagesNeverFetched ==
    /\ SkipEndsYear
    /\ (run.prevSkipped # <<>> /\ ~RESET) => NoFetchOfSkipped

\* C15 amended: the run restarted from that checkpoint fetches none of those
\* pages unless the year given up was YEAR_START; then the persisted year is
\* YEAR_START-1 and the restarted run starts over at (YEAR_END, 1).
C15_SkippedUnlessLastYear ==
    /\ SkipEndsYear
    /\ (run.prevSkipped # <<>> /\ ~RESET /\ run.prevSkipped[1] > YEAR_START)
          => NoFetchOfSkipped
    /\ (run.prevSkipped # <<>> /\ ~RESET /\ run.prevSkipped[1] = YEAR_START
           /\ Len(fetches) > 0)
          => (fetches[1].y = YEAR_END(mode) /\ fetches[1].offset = 1)

\* C15 witness: a run restarted from the checkpoint persisted for a year
\* given up above YEAR_START, a year with records at the failed offset, has
\* come to its end without a fetch in that year.
C15_Witness ==
    /\ RunEnds
    /\ run.prevSkipped # <<>> /\ ~RESET
    /\ run.prevSkipped[1] > YEAR_START
    /\ Records(run.prevSkipped[1]) >= run.prevSkipped[2]
    /\ fetches # <<>>
    /\ NoFetchOfSkipped

\* ---------------------------------------------- one page through the loop
\* The loop body from append_chunk on, for a fetched page and any set of
\* identifiers as existing_ids.
NextPage ==
    \/ AppendChunk
    \/ SaveProgress
    \/ EndOfResults
    \/ AdvanceOffset

SpecPage == InitMerge /\ [][NextPage]_vars

\* Where the loop goes after a fetch that returned n records.
NextPosition(f) ==
    IF f.n < RPP THEN <<f.y - 1, 1>> ELSE <<f.y, f.offset + RPP>>

\* C16: the position after a page depends on the number of records the
\* fetch returned and on nothing else: a full page keeps the year and moves
\* the offset by RPP, also when the filter left no row of it, so the next
\* fetch is the same for every content of existing_ids.
C16_CountBeforeDedup ==
    LET f == fetches[Len(fetches)]
    IN  fetches # <<>> =>
          /\ pc \in {"pause", "while_year"} =>
                /\ <<y, state.offset>> = NextPosition(f)
                /\ <<checkpoint.year, checkpoint.offset>> = NextPosition(f)
          /\ pc = "pause" => (f.n = RPP /\ y = f.y /\ offset = f.offset + RPP)
          /\ pc = "while_year" => f.n < RPP

\* C16 witness: get_more_data.py has passed a full page all of whose
\* records were among existing_ids: nothing was appended, the year is the
\* same and the offset RPP further.
C16_Witness ==
    /\ mode = "incremental"
    /\ pc = "pause"
    /\ Len(awards) = RPP
    /\ \A i \in 1..Len(awards) : awards[i].id \in existing_ids
    /\ added = 0
    /\ run.appended = 0
    /\ y = fetches[1].y
    /\ offset = fetches[1].offset + RPP

\* C17: whatever checkpoint was loaded, also one with an offset of 0 or
\* below, every offset passed to fetch_page is at least 1, every offset the
\* run writes to the checkpoint is at least 1, and within a year the offset
\* changes only by growing by RPP.
C17_OffsetAtLeastOne ==
    /\ pc = "fetch" => offset >= 1
    /\ \A i \in 1..Len(fetches) : fetches[i].offset >= 1
    /\ \A i \in 2..Len(fetches) :
          fetches[i].y = fetches[i - 1].y
              => fetches[i].offset = fetches[i - 1].offset + RPP
    /\ AfterSave => (checkpoint.kind = "json" /\ checkpoint.offset >= 1)

\* The fetch_page calls of this run so far that returned n records, n in ns.
FetchesReturning(ns) == {i \in 1..Len(fetches) : fetches[i].n \in ns}

\* C18 as stated: between a fetch that returned at least one record, a full
\* page or the short last page of a year, and the next request of the run
\* the loop pauses once.
C18_PauseAfterEveryPage ==
    pc = "fetch" => run.pauses = Cardinality(FetchesReturning(1..RPP))

\* C18 amended: the loop pauses once after a fetch that returned a full page
\* of RPP records, and not after a short or an empty page: the first request
\* of the year before follows without a pause.
C18_PauseAfterFullPage ==
    /\ pc = "fetch" => run.pauses = Cardinality(FetchesReturning({RPP}))
    /\ pc = "pause" =>
          /\ fetches[Len(fetches)].n = RPP
          /\ run.pauses = Cardinality(FetchesReturning({RPP})) - 1

\* C18 witness: a request is about to be issued after a full page and a
\* short page; the run has paused once.
C18_Witness ==
    /\ pc = "fetch"
    /\ Len(fetches) = 2
    /\ fetches[1].n = RPP
    /\ fetches[2].n \in 1..(RPP - 1)
    /\ run.pauses = 1

\* This run has saved the checkpoint at least once.
SavedByRun ==
    /\ Running
    /\ fetches # <<>>
    /\ ~(Len(fetches) = 1 /\ pc \in {"got_awards", "save_progress"})

\* Every year of the script's range has been fetched from offset 1.
AllYearsFromOne ==
    \A yy \in YEAR_START..YEAR_END(mode) :
        Len(YearFetches(yy)) > 0 /\ YearFetches(yy)[1].offset = 1

\* C19: a completed run leaves the persisted year at YEAR_START-1; until
\* then the year a run persists is within [YEAR_START, YEAR_END]; the next
\* run without reset is given (YEAR_END, 1) by load_checkpoint with the
\* total_saved of the completed run, and fetches every year of the range
\* again from offset 1.
C19_CompletedRunStartsOver ==
    /\ (RunEnds \/ Done) =>
          (checkpoint.kind = "json" /\ checkpoint.year = YEAR_START - 1)
    /\ (SavedByRun /\ ~RunEnds) =>
          (checkpoint.year = y /\ y \in YEAR_START..YEAR_END(mode))
    /\ (Running /\ run.prevExit = "completed" /\ ~RESET) =>
          /\ Loaded => state = [year |-> YEAR_END(mode), offset |-> 1,
                                written_header |-> checkpoint.written_header,
                                total_saved |-> run.prevTotal]
          /\ Len(fetches) > 0 =>
                (fetches[1].y = YEAR_END(mode) /\ fetches[1].offset = 1)
          /\ RunEnds => (AllYearsFromOne /\ state.total_saved >= run.prevTotal)

\* C19 witness: the run after a completed one that had saved rows has itself
\* come to its end, having fetched first at (YEAR_END, 1) and all years.
C19_Witness ==
    /\ RunEnds
    /\ run.prevExit = "completed" /\ ~RESET
    /\ run.prevTotal > 0
    /\ fetches[1].y = YEAR_END(mode) /\ fetches[1].offset = 1
    /\ AllYearsFromOne
    /\ state.total_saved >= run.prevTotal

\* C20: in a backfill started on absent files and restarted any number of
\* times without reset, the total_saved persisted by a checkpoint save is
\* the number of data rows in the output, and total_saved never falls below
\* what is persisted.
C20_TotalSavedCountsRows ==
    (hist.modes \subseteq {"backfill"} /\ ~hist.resets /\ Running) =>
        /\ AfterSave =>
              (checkpoint.kind = "json" /\ checkpoint.total_saved = DataCount)
        /\ (pc \in {"set_year", "while_year"} \/ InLoop)
              => state.total_saved >= PersistedTotal
====
